---- MODULE Spec2Model ----
(***************************************************************************)
(* Model of the alert-evaluation and tracking-loop subsystem of            *)
(* stock-tracker-pro: StockTracker (stock_tracker.py) and the dashboard's  *)
(* live-tracking tab (streamlit_dashboard.py).                             *)
(*                                                                         *)
(* Runner 0 is the dashboard's foreground "Update Prices" pass; runners    *)
(* 1..MaxThreads are the daemon threads spawned by start_tracking.         *)
(* Money is in cents, percentages in hundredths of a percent.              *)
(***************************************************************************)
EXTENDS Integers, Sequences, FiniteSets, TLC

\* ---------------------------------------------------------------- bounds
MaxThreads == 2
MaxAlerts == 1
MaxQuotes == 2

\* ---------------------------------------------------------------- inputs
Symbols == {"AAPL", "ZZZZ"}
Prices == {19999, 20000, 20500}
Changes == {499, 500, 501}
Thresholds == {500, 20000}
\* the four kinds check_alerts recognises, and two it does not
KnownKinds == {"above", "below", "change_above", "change_below"}
Kinds == KnownKinds \cup {"price_above", "price_below"}
\* a destination column is NULL or a non-empty string
None == "none"
EmailDests == {None, "user@example.com"}
ChatDests == {None, "123456789"}
\* a transport configuration: None, a well-formed dict, or a non-empty dict
\* whose keys are not the ones the transport call expects
Configs == {None, "ok", "bad"}
\* the inputs of the tracking-loop specification: one recognised kind, one
\* threshold, a price below it and a price on it
LoopKinds == {"above"}
LoopThresholds == {20000}
LoopPrices == {19999, 20000}
LoopChanges == {500}
\* a symbol as a caller may spell it
RegistrySymbols == {"aapl"}

Threads == 1..MaxThreads
Runners == 0..MaxThreads
Foreground == 0

VARIABLES
    watchlist,        \* watchlist table, in added_at order
    alerts,           \* alerts table, row id = index
    stocks,           \* stocks table (samples), in insertion order
    tracking_active,  \* StockTracker.tracking_active
    email_config,     \* the email_config the callers pass
    telegram_config,  \* the telegram_config the callers pass
    clock,            \* number of quotes the provider has served
    pc,               \* per runner: position in its code
    wl,               \* per runner: the watchlist it iterates over
    idx,              \* per runner: position in wl
    quote,            \* per runner: stock_data of the current symbol
    alist,            \* per runner: remaining ids of check_alerts' alerts list
    sent,             \* per runner: how the notification of the current alert went
    stopped,          \* per thread: stop_tracking was called since it started
    log,              \* per alert id: what check_alerts has done for it
    last              \* the last direct call of a StockTracker method: what was
                      \* called, with what, what it returned

vars == <<watchlist, alerts, stocks, tracking_active, email_config,
          telegram_config, clock, pc, wl, idx, quote, alist, sent, stopped, log,
          last>>

NoQuote == [symbol |-> None, price |-> 0, change_percent |-> 0, timestamp |-> 0]
\* per alert: send_email_alert calls, send_telegram_alert calls, whether an
\* evaluation that found it triggered has ended, whether such an evaluation
\* ended with a failed notification and the row still active, whether a failed
\* email kept a due Telegram message from being sent
NoLog == [email |-> 0, chat |-> 0, finished |-> FALSE, lost |-> FALSE,
          blocked |-> FALSE]

\* no call yet; seq flips with every call, again says that the call before
\* was the same method with the same argument
NoCall == [op |-> "none", arg |-> <<>>, ret |-> <<>>, seq |-> 0, again |-> FALSE]
Call(o, a, r) ==
    [op |-> o, arg |-> a, ret |-> r, seq |-> 1 - last.seq,
     again |-> (last.op = o /\ last.arg = a)]

\* ------------------------------------------------------- pure functions

\* str.upper() on the ticker symbols used here
Upper(s) ==
    CASE s = "aapl" -> "AAPL"
      [] s = "msft" -> "MSFT"
      [] s = "zzzz" -> "ZZZZ"
      [] OTHER -> s

\* round() of n/d to the nearest integer, d > 0 (no input here is a tie)
RoundDiv(n, d) == (2 * n + d) \div (2 * d)

\* a value the provider gives: <<>> is None, <<n>> the number n in thousandths
\* of a dollar; a key of the info dict is present or missing
Absent == <<>>
Key(v) == [present |-> TRUE, val |-> v]
MissingKey == [present |-> FALSE, val |-> Absent]
\* Python truth of an optional number
Truthy(v) == v # Absent /\ v[1] # 0
\* info.get(k): the value, None when the key is missing
Get(k) == IF k.present THEN k.val ELSE Absent
\* info.get(k, default): the value, default only when the key is missing
GetOr(k, default) == IF k.present THEN k.val ELSE default

\* a variant of line 130 that reports a full change over a zero previous close
ChangePercentFull(change, previous_close) ==
    IF previous_close # 0 THEN RoundDiv(change * 10000, previous_close) ELSE 10000

\* line 130 and the round() of line 137, in hundredths of a percent:
\* (change / previous_close) * 100 if previous_close else 0
ChangePercent(change, previous_close) ==
    IF previous_close # 0 THEN RoundDiv(change * 10000, previous_close) ELSE 0

\* get_stock_data: what it returns for what the provider answers. info holds
\* the keys currentPrice, regularMarketPrice and previousClose of ticker.info
\* and the last Close of ticker.history (None when the frame is empty).
\* <<>> is the None it returns, <<q>> the dict q (money in cents).
GetStockData(symbol, info) ==
    LET quoted == IF Truthy(Get(info.currentPrice)) THEN Get(info.currentPrice)
                  ELSE Get(info.regularMarketPrice)
        current_price == IF Truthy(quoted) THEN quoted ELSE info.histClose
        previous_close == GetOr(info.previousClose, current_price)
    IN  IF current_price = Absent THEN <<>>
        \* current_price - None raises TypeError, caught at line 142
        ELSE IF previous_close = Absent THEN <<>>
        ELSE LET change == current_price[1] - previous_close[1]
             IN  <<[symbol |-> Upper(symbol),
                    price |-> RoundDiv(current_price[1], 10),
                    change |-> RoundDiv(change, 10),
                    change_percent |-> ChangePercent(change, previous_close[1])]>>

\* a variant of the elif chain that ends in an else comparing the price
TriggeredElse(alert, q) ==
    IF alert.alert_type = "above" /\ q.price >= alert.threshold THEN TRUE
    ELSE IF alert.alert_type = "below" /\ q.price <= alert.threshold THEN TRUE
    ELSE IF alert.alert_type = "change_above" /\ q.change_percent >= alert.threshold THEN TRUE
    ELSE IF alert.alert_type = "change_below" /\ q.change_percent <= alert.threshold THEN TRUE
    ELSE alert.alert_type \notin KnownKinds /\ q.price >= alert.threshold

\* a variant of the elif chain with strict comparisons for the price kinds
TriggeredStrict(alert, q) ==
    IF alert.alert_type = "above" /\ q.price > alert.threshold THEN TRUE
    ELSE IF alert.alert_type = "below" /\ q.price < alert.threshold THEN TRUE
    ELSE IF alert.alert_type = "change_above" /\ q.change_percent >= alert.threshold THEN TRUE
    ELSE IF alert.alert_type = "change_below" /\ q.change_percent <= alert.threshold THEN TRUE
    ELSE FALSE

\* a variant of the elif chain whose change kinds compare the price
TriggeredOnPrice(alert, q) ==
    IF alert.alert_type = "above" /\ q.price >= alert.threshold THEN TRUE
    ELSE IF alert.alert_type = "below" /\ q.price <= alert.threshold THEN TRUE
    ELSE IF alert.alert_type = "change_above" /\ q.price >= alert.threshold THEN TRUE
    ELSE IF alert.alert_type = "change_below" /\ q.price <= alert.threshold THEN TRUE
    ELSE FALSE

\* lines 262-272: the elif chain of check_alerts
Triggered(alert, q) ==
    IF alert.alert_type = "above" /\ q.price >= alert.threshold THEN TRUE
    ELSE IF alert.alert_type = "below" /\ q.price <= alert.threshold THEN TRUE
    ELSE IF alert.alert_type = "change_above" /\ q.change_percent >= alert.threshold THEN TRUE
    ELSE IF alert.alert_type = "change_below" /\ q.change_percent <= alert.threshold THEN TRUE
    ELSE FALSE

\* get_active_alerts: ids of the rows with is_active = 1, in row order
RECURSIVE ActiveFrom(_, _)
ActiveFrom(tbl, i) ==
    IF i > Len(tbl) THEN <<>>
    ELSE IF tbl[i].is_active THEN <<i>> \o ActiveFrom(tbl, i + 1)
    ELSE ActiveFrom(tbl, i + 1)

GetActiveAlerts(tbl) == ActiveFrom(tbl, 1)

\* the transport is attempted for this alert: lines 287 and 296
EmailWanted(alert, ec) == alert.email # None /\ ec # None
ChatWanted(alert, tc) == alert.telegram_chat_id # None /\ tc # None

\* building the call raises before any send: **email_config with an unknown
\* keyword (TypeError), telegram_config['bot_token'] missing (KeyError)
EmailRaises(alert, ec) == EmailWanted(alert, ec) /\ ec = "bad"
ChatRaises(alert, tc) == ChatWanted(alert, tc) /\ tc = "bad"

Live(t) == pc[t] \notin {"idle", "done", "crashed"}

\* ------------------------------------------------------------------ Init
\* the tables a run starts from, the configurations the callers pass
InitWith(w, a) ==
    /\ watchlist = w
    /\ alerts = a
    /\ stocks = <<>>
    /\ tracking_active = FALSE
    /\ email_config \in Configs
    /\ telegram_config \in Configs
    /\ clock = 0
    /\ pc = [r \in Runners |-> "idle"]
    /\ wl = [r \in Runners |-> <<>>]
    /\ idx = [r \in Runners |-> 0]
    /\ quote = [r \in Runners |-> NoQuote]
    /\ alist = [r \in Runners |-> <<>>]
    /\ sent = [r \in Runners |-> "none"]
    /\ stopped = [r \in Runners |-> FALSE]
    /\ log = [i \in 1..MaxAlerts |-> NoLog]
    /\ last = NoCall

\* the tracking loop runs over a watchlist whose first symbol the provider may
\* not know
Init == InitWith(<<"ZZZZ", "AAPL">>, <<>>)

\* ------------------------------------------------------------ watchlist
InWatchlist(s) == \E i \in 1..Len(watchlist) : watchlist[i] = s

RECURSIVE Without(_, _)
Without(seq, s) ==
    IF seq = <<>> THEN <<>>
    ELSE IF Head(seq) = s THEN Without(Tail(seq), s)
    ELSE <<Head(seq)>> \o Without(Tail(seq), s)

\* add_to_watchlist: INSERT OR IGNORE on the UNIQUE symbol column
AddToWatchlist(s) ==
    /\ ~InWatchlist(Upper(s))
    /\ watchlist' = Append(watchlist, Upper(s))
    /\ UNCHANGED <<alerts, stocks, tracking_active, email_config, telegram_config,
                   clock, pc, wl, idx, quote, alist, sent, stopped, log, last>>

\* remove_from_watchlist: DELETE WHERE symbol = ?
RemoveFromWatchlist(s) ==
    /\ InWatchlist(Upper(s))
    /\ watchlist' = Without(watchlist, Upper(s))
    /\ UNCHANGED <<alerts, stocks, tracking_active, email_config, telegram_config,
                   clock, pc, wl, idx, quote, alist, sent, stopped, log, last>>

\* get_watchlist: the rows in added_at order, or [] when the query raises
GetWatchlist == {watchlist, <<>>}

\* --------------------------------------------------------------- alerts
\* a variant of the inserted row that is stored inactive
NewAlertInactive(s, k, t, e, c) ==
    [symbol |-> Upper(s), alert_type |-> k, threshold |-> t, email |-> e,
     telegram_chat_id |-> c, is_active |-> FALSE]

\* the row create_alert inserts: the symbol in upper case, is_active DEFAULT 1
NewAlert(s, k, t, e, c) ==
    [symbol |-> Upper(s), alert_type |-> k, threshold |-> t, email |-> e,
     telegram_chat_id |-> c, is_active |-> TRUE]

\* create_alert, the try branch: one INSERT, is_active defaults to 1; any
\* alert_type is stored; returns True
CreateAlert(s, k, t, e, c) ==
    /\ Len(alerts) < MaxAlerts
    /\ alerts' = Append(alerts, NewAlert(s, k, t, e, c))
    /\ last' = Call("create_alert", <<s, k, t, e, c>>, TRUE)
    /\ UNCHANGED <<watchlist, stocks, tracking_active, email_config, telegram_config,
                   clock, pc, wl, idx, quote, alist, sent, stopped, log>>

\* a variant of the except branch that reports success
CreateAlertFailsSilently(s, k, t, e, c) ==
    /\ last' = Call("create_alert", <<s, k, t, e, c>>, TRUE)
    /\ UNCHANGED <<watchlist, alerts, stocks, tracking_active, email_config,
                   telegram_config, clock, pc, wl, idx, quote, alist, sent,
                   stopped, log>>

\* create_alert, the except branch: the INSERT raised (a NOT NULL column left
\* empty, or the database could not be written); nothing is stored; returns
\* False
CreateAlertFails(s, k, t, e, c) ==
    /\ last' = Call("create_alert", <<s, k, t, e, c>>, FALSE)
    /\ UNCHANGED <<watchlist, alerts, stocks, tracking_active, email_config,
                   telegram_config, clock, pc, wl, idx, quote, alist, sent,
                   stopped, log>>

\* a variant of the UPDATE that flips the flag
SetInactiveFlips(tbl, id) ==
    [i \in 1..Len(tbl) |-> IF i = id THEN [tbl[i] EXCEPT !.is_active = ~tbl[i].is_active] ELSE tbl[i]]

\* UPDATE alerts SET is_active = 0 WHERE id = ?
SetInactive(tbl, id) ==
    [i \in 1..Len(tbl) |-> IF i = id THEN [tbl[i] EXCEPT !.is_active = FALSE] ELSE tbl[i]]

\* what deactivate_alert can leave behind: the update, or nothing when it raises
\* inside the try (the error is logged and swallowed)
DeactivateOutcomes(tbl, id) == {SetInactive(tbl, id), tbl}

\* deactivate_alert called directly (the dashboard's deactivate button, whose
\* page may list a rule that has been deactivated since it was drawn); it
\* returns None whether the UPDATE went through or raised
DeactivateAlert(id) ==
    /\ id \in 1..Len(alerts)
    /\ alerts' \in DeactivateOutcomes(alerts, id)
    /\ last' = Call("deactivate_alert", id, None)
    /\ UNCHANGED <<watchlist, stocks, tracking_active, email_config, telegram_config,
                   clock, pc, wl, idx, quote, alist, sent, stopped, log>>

\* ------------------------------------------------------- start and stop
\* start_tracking: sets the flag and starts a new daemon thread, whatever the
\* flag was and whatever threads exist
StartTracking(t) ==
    /\ ~Live(t)
    /\ \A u \in Threads : u < t => Live(u)
    /\ tracking_active' = TRUE
    /\ pc' = [pc EXCEPT ![t] = "top"]
    /\ wl' = [wl EXCEPT ![t] = <<>>]
    /\ idx' = [idx EXCEPT ![t] = 0]
    /\ stopped' = [stopped EXCEPT ![t] = FALSE]
    /\ UNCHANGED <<watchlist, alerts, stocks, email_config, telegram_config,
                   clock, quote, alist, sent, log, last>>

\* stop_tracking: clears the flag
StopTracking ==
    /\ tracking_active' = FALSE
    /\ stopped' = [r \in Runners |-> stopped[r] \/ (r \in Threads /\ Live(r))]
    /\ UNCHANGED <<watchlist, alerts, stocks, email_config, telegram_config,
                   clock, pc, wl, idx, quote, alist, sent, log, last>>

\* --------------------------------------------------------- the runners
\* a variant of the cycle start that iterates the watchlist as it was when the
\* tracker was constructed
CycleStartStale(t) ==
    /\ pc[t] = "top"
    /\ IF tracking_active
       THEN /\ wl' = [wl EXCEPT ![t] = <<"ZZZZ", "AAPL">>]
            /\ idx' = [idx EXCEPT ![t] = 1]
            /\ pc' = [pc EXCEPT ![t] = "fetch"]
       ELSE /\ pc' = [pc EXCEPT ![t] = "done"]
            /\ UNCHANGED <<wl, idx>>
    /\ stopped' = [stopped EXCEPT ![t] = tracking_active /\ @]
    /\ UNCHANGED <<watchlist, alerts, stocks, tracking_active, email_config,
                   telegram_config, clock, quote, alist, sent, log, last>>

\* a variant of the while test that does not look at the flag
CycleStartForever(t) ==
    /\ pc[t] = "top"
    /\ \E w \in GetWatchlist :
          /\ wl' = [wl EXCEPT ![t] = w]
          /\ idx' = [idx EXCEPT ![t] = 1]
          /\ pc' = [pc EXCEPT ![t] = IF w = <<>> THEN "sleep" ELSE "fetch"]
    /\ stopped' = [stopped EXCEPT ![t] = tracking_active /\ @]
    /\ UNCHANGED <<watchlist, alerts, stocks, tracking_active, email_config,
                   telegram_config, clock, quote, alist, sent, log, last>>

\* the while test of track() and the watchlist read that follows it
CycleStart(t) ==
    /\ pc[t] = "top"
    /\ IF tracking_active
       THEN \E w \in GetWatchlist :
              /\ wl' = [wl EXCEPT ![t] = w]
              /\ idx' = [idx EXCEPT ![t] = 1]
              /\ pc' = [pc EXCEPT ![t] = IF w = <<>> THEN "sleep" ELSE "fetch"]
       ELSE /\ pc' = [pc EXCEPT ![t] = "done"]
            /\ UNCHANGED <<wl, idx>>
    /\ stopped' = [stopped EXCEPT ![t] = tracking_active /\ @]
    /\ UNCHANGED <<watchlist, alerts, stocks, tracking_active, email_config,
                   telegram_config, clock, quote, alist, sent, log, last>>

\* time.sleep returns
Wake(t) ==
    /\ pc[t] = "sleep"
    /\ pc' = [pc EXCEPT ![t] = "top"]
    /\ UNCHANGED <<watchlist, alerts, stocks, tracking_active, email_config,
                   telegram_config, clock, wl, idx, quote, alist, sent, stopped, log, last>>

\* the dashboard's "Update Prices" button: iterates the watchlist read when the
\* tab was rendered; the tab returns early on an empty watchlist
UpdatePrices ==
    /\ pc[Foreground] \in {"idle", "crashed"}
    /\ watchlist # <<>>
    /\ wl' = [wl EXCEPT ![Foreground] = watchlist]
    /\ idx' = [idx EXCEPT ![Foreground] = 1]
    /\ pc' = [pc EXCEPT ![Foreground] = "fetch"]
    /\ UNCHANGED <<watchlist, alerts, stocks, tracking_active, email_config,
                   telegram_config, clock, quote, alist, sent, stopped, log, last>>

\* where a runner goes after the body of its for loop for the current symbol
AfterSymbol(r) ==
    IF idx[r] < Len(wl[r]) THEN "fetch"
    ELSE IF r = Foreground THEN "idle" ELSE "sleep"

\* the loop variables after the body: the next position, or nothing once the
\* for loop is over
NextIdx(r) == IF idx[r] < Len(wl[r]) THEN idx[r] + 1 ELSE 0
NextWl(r) == IF idx[r] < Len(wl[r]) THEN wl[r] ELSE <<>>

Sample(q) ==
    [symbol |-> q.symbol, price |-> q.price, change_percent |-> q.change_percent,
     timestamp |-> q.timestamp]

\* what store_stock_data can leave behind: one appended row, or nothing when the
\* insert raises (logged and swallowed)
StoreOutcomes(tbl, q) == {Append(tbl, Sample(q)), tbl}

\* store_stock_data called on its own with a quote fetched earlier (another
\* caller may have fetched and stored in between, so the timestamp of the row
\* need not be the latest)
StoreStockData(q) ==
    /\ Len(stocks) < MaxQuotes
    /\ stocks' \in StoreOutcomes(stocks, q)
    /\ last' = Call("store_stock_data", q, None)
    /\ UNCHANGED <<watchlist, alerts, tracking_active, email_config,
                   telegram_config, clock, pc, wl, idx, quote, alist, sent,
                   stopped, log>>

\* WHERE symbol = ? AND timestamp >= ?
RECURSIVE SelectRows(_, _, _)
SelectRows(tbl, symbol, cutoff) ==
    IF tbl = <<>> THEN <<>>
    ELSE IF Head(tbl).symbol = symbol /\ Head(tbl).timestamp >= cutoff
         THEN <<Head(tbl)>> \o SelectRows(Tail(tbl), symbol, cutoff)
         ELSE SelectRows(Tail(tbl), symbol, cutoff)

\* ORDER BY timestamp: a row goes behind the rows that are not later than it
RECURSIVE InsertByTimestamp(_, _)
InsertByTimestamp(rows, row) ==
    IF rows = <<>> THEN <<row>>
    ELSE IF Head(rows).timestamp <= row.timestamp
         THEN <<Head(rows)>> \o InsertByTimestamp(Tail(rows), row)
         ELSE <<row>> \o rows

RECURSIVE OrderByTimestamp(_)
OrderByTimestamp(rows) ==
    IF rows = <<>> THEN <<>>
    ELSE InsertByTimestamp(OrderByTimestamp(SubSeq(rows, 1, Len(rows) - 1)),
                           rows[Len(rows)])

\* a variant of the query without its ORDER BY
GetHistoricalDataUnordered(tbl, symbol, cutoff) ==
    SelectRows(tbl, Upper(symbol), cutoff)

\* the query of get_historical_data; cutoff is datetime.now() - timedelta(days)
GetHistoricalData(tbl, symbol, cutoff) ==
    OrderByTimestamp(SelectRows(tbl, Upper(symbol), cutoff))

\* get_historical_data: the rows of the query, or an empty frame when the
\* query raises (logged and swallowed); nothing is written
GetHistoricalDataCall(symbol, cutoff) ==
    /\ \E rows \in {GetHistoricalData(stocks, symbol, cutoff), <<>>} :
          last' = Call("get_historical_data", <<symbol, cutoff>>, rows)
    /\ UNCHANGED <<watchlist, alerts, stocks, tracking_active, email_config,
                   telegram_config, clock, pc, wl, idx, quote, alist, sent,
                   stopped, log>>

\* a variant of the skip that gives up the rest of the cycle
FetchNoneAborts(r) ==
    /\ pc[r] = "fetch"
    /\ pc' = [pc EXCEPT ![r] = IF r = Foreground THEN "idle" ELSE "sleep"]
    /\ idx' = [idx EXCEPT ![r] = 0]
    /\ wl' = [wl EXCEPT ![r] = <<>>]
    /\ UNCHANGED <<watchlist, alerts, stocks, tracking_active, email_config,
                   telegram_config, clock, quote, alist, sent, stopped, log, last>>

\* get_stock_data returned None (no price, or an exception): the symbol is skipped
FetchNone(r) ==
    /\ pc[r] = "fetch"
    /\ pc' = [pc EXCEPT ![r] = AfterSymbol(r)]
    /\ idx' = [idx EXCEPT ![r] = NextIdx(r)]
    /\ wl' = [wl EXCEPT ![r] = NextWl(r)]
    /\ UNCHANGED <<watchlist, alerts, stocks, tracking_active, email_config,
                   telegram_config, clock, quote, alist, sent, stopped, log, last>>

\* get_stock_data returned a quote; store_stock_data is called with it
FetchQuote(r, p, c) ==
    /\ pc[r] = "fetch"
    /\ clock < MaxQuotes
    /\ LET q == [symbol |-> wl[r][idx[r]], price |-> p, change_percent |-> c,
                 timestamp |-> clock + 1]
       IN  /\ quote' = [quote EXCEPT ![r] = q]
           /\ stocks' \in StoreOutcomes(stocks, q)
    /\ clock' = clock + 1
    /\ pc' = [pc EXCEPT ![r] = "check"]
    /\ UNCHANGED <<watchlist, alerts, tracking_active, email_config,
                   telegram_config, wl, idx, alist, sent, stopped, log, last>>

\* get_stock_data called on its own (the dashboard's tabs do): nothing is stored
GetStockDataCall(symbol, info) ==
    /\ last' = Call("get_stock_data", <<symbol, info>>, GetStockData(symbol, info))
    /\ UNCHANGED <<watchlist, alerts, stocks, tracking_active, email_config,
                   telegram_config, clock, pc, wl, idx, quote, alist, sent,
                   stopped, log>>

\* the fetch of the loop body for one answer of the provider
Fetch(r, info) ==
    /\ pc[r] = "fetch"
    /\ LET got == GetStockData(wl[r][idx[r]], info)
       IN  IF got = <<>> THEN FetchNone(r)
           ELSE FetchQuote(r, got[1].price, got[1].change_percent)

\* first line of check_alerts: alerts = self.get_active_alerts(), which is []
\* when the query raises
CheckAlerts(r) ==
    /\ pc[r] = "check"
    /\ alist' \in {[alist EXCEPT ![r] = GetActiveAlerts(alerts)],
                   [alist EXCEPT ![r] = <<>>]}
    /\ pc' = [pc EXCEPT ![r] = "eval"]
    /\ UNCHANGED <<watchlist, alerts, stocks, tracking_active, email_config,
                   telegram_config, clock, wl, idx, quote, sent, stopped, log, last>>

\* check_alerts returned: next symbol, or end of the pass
Return(r) ==
    /\ pc[r] = "eval"
    /\ alist[r] = <<>>
    /\ pc' = [pc EXCEPT ![r] = AfterSymbol(r)]
    /\ idx' = [idx EXCEPT ![r] = NextIdx(r)]
    /\ wl' = [wl EXCEPT ![r] = NextWl(r)]
    /\ quote' = [quote EXCEPT ![r] = NoQuote]
    /\ UNCHANGED <<watchlist, alerts, stocks, tracking_active, email_config,
                   telegram_config, clock, alist, sent, stopped, log, last>>

\* one iteration of the for loop whose alert is of another symbol or does not
\* trigger
Skip(r) ==
    /\ pc[r] = "eval"
    /\ alist[r] # <<>>
    /\ LET a == alerts[Head(alist[r])]
       IN  a.symbol # quote[r].symbol \/ ~Triggered(a, quote[r])
    /\ alist' = [alist EXCEPT ![r] = Tail(alist[r])]
    /\ UNCHANGED <<watchlist, alerts, stocks, tracking_active, email_config,
                   telegram_config, clock, pc, wl, idx, quote, sent, stopped, log, last>>

\* the notification block of a triggered alert (lines 286-301); eok and cok are
\* what send_email_alert and send_telegram_alert return (False on any transport
\* error, which they catch themselves)
EmailSent(a, ec) == EmailWanted(a, ec) /\ ~EmailRaises(a, ec)
ChatSent(a, ec, tc) == ~EmailRaises(a, ec) /\ ChatWanted(a, tc) /\ ~ChatRaises(a, tc)
NotifyRaises(a, ec, tc) == EmailRaises(a, ec) \/ ChatRaises(a, tc)
NotifyFailed(a, ec, tc, eok, cok) ==
    \/ NotifyRaises(a, ec, tc)
    \/ EmailSent(a, ec) /\ ~eok
    \/ ChatSent(a, ec, tc) /\ ~cok

\* a variant of the block that does not compare the symbols
NotifyAnySymbol(r, eok, cok) ==
    /\ pc[r] = "eval"
    /\ alist[r] # <<>>
    /\ LET id == Head(alist[r])
           a == alerts[id]
       IN  /\ Triggered(a, quote[r])
           /\ log' = [log EXCEPT
                  ![id].email = IF EmailSent(a, email_config) THEN @ + 1 ELSE @,
                  ![id].chat = IF ChatSent(a, email_config, telegram_config)
                               THEN @ + 1 ELSE @]
    /\ pc' = [pc EXCEPT ![r] = "deactivate"]
    /\ sent' = [sent EXCEPT ![r] = "ok"]
    /\ UNCHANGED <<watchlist, alerts, stocks, tracking_active, email_config,
                   telegram_config, clock, wl, idx, quote, alist, stopped, last>>

\* a variant of the block that goes on to the deactivation without sending
NotifyLeftOut(r, eok, cok) ==
    /\ pc[r] = "eval"
    /\ alist[r] # <<>>
    /\ LET a == alerts[Head(alist[r])]
       IN  a.symbol = quote[r].symbol /\ Triggered(a, quote[r])
    /\ pc' = [pc EXCEPT ![r] = "deactivate"]
    /\ UNCHANGED <<watchlist, alerts, stocks, tracking_active, email_config,
                   telegram_config, clock, wl, idx, quote, alist, sent, stopped,
                   log, last>>

Notify(r, eok, cok) ==
    /\ pc[r] = "eval"
    /\ alist[r] # <<>>
    /\ LET id == Head(alist[r])
           a == alerts[id]
           ec == email_config
           tc == telegram_config
       IN  /\ a.symbol = quote[r].symbol
           /\ Triggered(a, quote[r])
           /\ log' = [log EXCEPT
                  ![id].email = IF EmailSent(a, ec) THEN @ + 1 ELSE @,
                  ![id].chat = IF ChatSent(a, ec, tc) THEN @ + 1 ELSE @,
                  ![id].blocked = @ \/ (/\ EmailWanted(a, ec) /\ ChatWanted(a, tc)
                                        /\ EmailRaises(a, ec) \/ ~eok
                                        /\ ~ChatSent(a, ec, tc)),
                  ![id].finished = @ \/ NotifyRaises(a, ec, tc),
                  ![id].lost = @ \/ (NotifyRaises(a, ec, tc) /\ a.is_active)]
           /\ IF NotifyRaises(a, ec, tc)
              THEN \* the exception leaves check_alerts and ends the caller
                   /\ pc' = [pc EXCEPT ![r] = "crashed"]
                   /\ wl' = [wl EXCEPT ![r] = <<>>]
                   /\ idx' = [idx EXCEPT ![r] = 0]
                   /\ quote' = [quote EXCEPT ![r] = NoQuote]
                   /\ alist' = [alist EXCEPT ![r] = <<>>]
                   /\ stopped' = [stopped EXCEPT ![r] = FALSE]
                   /\ UNCHANGED sent
              ELSE /\ pc' = [pc EXCEPT ![r] = "deactivate"]
                   /\ sent' = [sent EXCEPT ![r] =
                                 IF NotifyFailed(a, ec, tc, eok, cok) THEN "failed" ELSE "ok"]
                   /\ UNCHANGED <<wl, idx, quote, alist, stopped>>
    /\ UNCHANGED <<watchlist, alerts, stocks, tracking_active, email_config,
                   telegram_config, clock, last>>

\* line 304: self.deactivate_alert(alert['id'])
Deactivate(r) ==
    /\ pc[r] = "deactivate"
    /\ LET id == Head(alist[r])
       IN  /\ alerts' \in DeactivateOutcomes(alerts, id)
           /\ log' = [log EXCEPT
                  ![id].finished = TRUE,
                  ![id].lost = @ \/ (sent[r] = "failed" /\ alerts'[id].is_active)]
    /\ alist' = [alist EXCEPT ![r] = Tail(alist[r])]
    /\ sent' = [sent EXCEPT ![r] = "none"]
    /\ pc' = [pc EXCEPT ![r] = "eval"]
    /\ UNCHANGED <<watchlist, stocks, tracking_active, email_config,
                   telegram_config, clock, wl, idx, quote, stopped, last>>

\* ------------------------------------------------------------------ Next
\* start_tracking, stop_tracking and the threads they control
Next ==
    \/ \E s \in Symbols, k \in LoopKinds, t \in LoopThresholds,
          e \in EmailDests, c \in ChatDests : CreateAlert(s, k, t, e, c)
    \/ \E t \in Threads : StartTracking(t)
    \/ StopTracking
    \/ \E t \in Threads : CycleStart(t)
    \/ \E t \in Threads : Wake(t)
    \/ \E t \in Threads : FetchNone(t)
    \/ \E t \in Threads, p \in LoopPrices, c \in LoopChanges : FetchQuote(t, p, c)
    \/ \E t \in Threads : CheckAlerts(t)
    \/ \E t \in Threads : Return(t)
    \/ \E t \in Threads : Skip(t)
    \/ \E t \in Threads, eok \in BOOLEAN, cok \in BOOLEAN : Notify(t, eok, cok)
    \/ \E t \in Threads : Deactivate(t)

Spec == Init /\ [][Next]_vars

\* one tracking thread on its own: the cycle of track()
NextCycle ==
    \/ \E k \in LoopKinds, t \in LoopThresholds, e \in EmailDests, c \in ChatDests :
          CreateAlert("AAPL", k, t, e, c)
    \/ StartTracking(1)
    \/ StopTracking
    \/ CycleStart(1)
    \/ Wake(1)
    \/ FetchNone(1)
    \/ \E p \in LoopPrices, c \in LoopChanges : FetchQuote(1, p, c)
    \/ CheckAlerts(1)
    \/ Return(1)
    \/ Skip(1)
    \/ \E eok \in BOOLEAN, cok \in BOOLEAN : Notify(1, eok, cok)
    \/ Deactivate(1)

SpecCycle == Init /\ [][NextCycle]_vars

\* one tracking thread next to the dashboard's "Update Prices" pass
NextUser ==
    \/ \E s \in Symbols, k \in LoopKinds, t \in LoopThresholds,
          e \in EmailDests, c \in ChatDests : CreateAlert(s, k, t, e, c)
    \/ StartTracking(1)
    \/ StopTracking
    \/ CycleStart(1)
    \/ Wake(1)
    \/ UpdatePrices
    \/ \E r \in {Foreground, 1} : FetchNone(r)
    \/ \E r \in {Foreground, 1}, p \in LoopPrices, c \in LoopChanges : FetchQuote(r, p, c)
    \/ \E r \in {Foreground, 1} : CheckAlerts(r)
    \/ \E r \in {Foreground, 1} : Return(r)
    \/ \E r \in {Foreground, 1} : Skip(r)
    \/ \E r \in {Foreground, 1}, eok \in BOOLEAN, cok \in BOOLEAN : Notify(r, eok, cok)
    \/ \E r \in {Foreground, 1} : Deactivate(r)

\* the dashboard passes the configurations its sidebar built: absent or
\* well-formed
InitUser == Init /\ email_config # "bad" /\ telegram_config # "bad"

SpecUser == InitUser /\ [][NextUser]_vars

\* check_alerts applied to every quote and every rule: one stored rule of any
\* kind and threshold, evaluated by the foreground pass
InitEval ==
    \E s \in Symbols, k \in Kinds, t \in Thresholds, e \in EmailDests :
        InitWith(<<"AAPL">>, <<NewAlert(s, k, t, e, None)>>)

NextEval ==
    \/ UpdatePrices
    \/ FetchNone(Foreground)
    \/ \E p \in Prices, c \in Changes : FetchQuote(Foreground, p, c)
    \/ CheckAlerts(Foreground)
    \/ Return(Foreground)
    \/ Skip(Foreground)
    \/ \E eok \in BOOLEAN, cok \in BOOLEAN : Notify(Foreground, eok, cok)
    \/ Deactivate(Foreground)

SpecEval == InitEval /\ [][NextEval]_vars

\* check_alerts among rules of both symbols: rules of every kind, recognised
\* or not, are created for either symbol of the watchlist and the foreground pass
\* evaluates them against quotes of both symbols
InitFrame == Init /\ email_config # "bad" /\ telegram_config = None

NextFrame ==
    \/ \E s \in Symbols, k \in Kinds, t \in LoopThresholds :
          CreateAlert(s, k, t, "user@example.com", None)
    \/ UpdatePrices
    \/ FetchNone(Foreground)
    \/ \E p \in LoopPrices, c \in LoopChanges : FetchQuote(Foreground, p, c)
    \/ CheckAlerts(Foreground)
    \/ Return(Foreground)
    \/ Skip(Foreground)
    \/ \E eok \in BOOLEAN, cok \in BOOLEAN : Notify(Foreground, eok, cok)
    \/ Deactivate(Foreground)

SpecFrame == InitFrame /\ [][NextFrame]_vars

\* the threads of start_tracking and stop_tracking when every call a thread
\* makes returns: a thread that can take a step does take one
ThreadStep(t) ==
    \/ CycleStart(t)
    \/ Wake(t)
    \/ FetchNone(t)
    \/ \E p \in LoopThresholds, c \in LoopChanges : FetchQuote(t, p, c)
    \/ CheckAlerts(t)
    \/ Return(t)

InitStop ==
    InitWith(<<"AAPL">>, <<>>) /\ email_config = None /\ telegram_config = None

NextStop ==
    \/ \E t \in Threads : StartTracking(t)
    \/ StopTracking
    \/ \E t \in Threads : ThreadStep(t)

SpecStop ==
    InitStop /\ [][NextStop]_vars /\ \A t \in Threads : WF_vars(ThreadStep(t))

\* one tracking thread while the watchlist is edited: a symbol is added (in
\* lower case), removed and added again; a rule on it may exist
WatchSymbols == {"msft"}

InitWatch == Init /\ telegram_config = None

NextWatch ==
    \/ \E s \in WatchSymbols : AddToWatchlist(s)
    \/ \E s \in WatchSymbols : RemoveFromWatchlist(s)
    \/ \E k \in LoopKinds, t \in LoopThresholds :
          CreateAlert("MSFT", k, t, "user@example.com", None)
    \/ StartTracking(1)
    \/ StopTracking
    \/ CycleStart(1)
    \/ Wake(1)
    \/ FetchNone(1)
    \/ \E p \in LoopPrices, c \in LoopChanges : FetchQuote(1, p, c)
    \/ CheckAlerts(1)
    \/ Return(1)
    \/ Skip(1)
    \/ \E eok \in BOOLEAN, cok \in BOOLEAN : Notify(1, eok, cok)
    \/ Deactivate(1)

SpecWatch == InitWatch /\ [][NextWatch]_vars

\* the sample store under its callers: quotes of two symbols are stored with
\* timestamps in any order and queried with any cutoff
Times == 1..MaxQuotes
StoredQuotes ==
    [symbol : Symbols, price : LoopPrices, change_percent : LoopChanges,
     timestamp : Times]

InitQuery ==
    InitWith(<<"AAPL">>, <<>>) /\ email_config = None /\ telegram_config = None

NextQuery ==
    \/ \E q \in StoredQuotes : StoreStockData(q)
    \/ \E s \in RegistrySymbols, cutoff \in Times : GetHistoricalDataCall(s, cutoff)

SpecQuery == InitQuery /\ [][NextQuery]_vars

\* get_stock_data over the answers of the provider: a current price that is
\* missing, zero or given; a regular market price and a last close of the
\* day's history that are missing or given; a previous close whose key is
\* missing, or present with None, zero or a number
InfoCurrent == {MissingKey, Key(<<0>>), Key(<<205004>>)}
InfoRegular == {MissingKey, Key(<<199000>>)}
InfoHist == {Absent, <<200000>>}
InfoPrevious == {MissingKey, Key(Absent), Key(<<0>>), Key(<<200000>>)}
Infos ==
    [currentPrice : InfoCurrent, regularMarketPrice : InfoRegular,
     histClose : InfoHist, previousClose : InfoPrevious]

InitFetch ==
    InitWith(<<"AAPL">>, <<>>) /\ email_config = None /\ telegram_config = None

NextFetch ==
    \/ \E s \in RegistrySymbols, info \in Infos : GetStockDataCall(s, info)
    \/ UpdatePrices
    \/ \E info \in Infos : Fetch(Foreground, info)
    \/ CheckAlerts(Foreground)
    \/ Return(Foreground)

SpecFetch == InitFetch /\ [][NextFetch]_vars

\* the alert registry under its callers: rules are created (with a symbol in
\* lower case), deactivated by hand, and evaluated by the foreground pass

NextRegistry ==
    \/ \E s \in RegistrySymbols, k \in LoopKinds, t \in LoopThresholds,
          e \in EmailDests : CreateAlert(s, k, t, e, None)
    \/ \E s \in RegistrySymbols, k \in LoopKinds, t \in LoopThresholds,
          e \in EmailDests : CreateAlertFails(s, k, t, e, None)
    \/ \E id \in 1..MaxAlerts : DeactivateAlert(id)
    \/ UpdatePrices
    \/ FetchNone(Foreground)
    \/ \E p \in LoopPrices, c \in LoopChanges : FetchQuote(Foreground, p, c)
    \/ CheckAlerts(Foreground)
    \/ Return(Foreground)
    \/ Skip(Foreground)
    \/ \E eok \in BOOLEAN, cok \in BOOLEAN : Notify(Foreground, eok, cok)
    \/ Deactivate(Foreground)

InitRegistry ==
    InitWith(<<"AAPL">>, <<>>) /\ email_config # "bad" /\ telegram_config = None

SpecRegistry == InitRegistry /\ [][NextRegistry]_vars

\* ================================================================ claims

Ids == 1..Len(alerts)

\* C1: once check_alerts has finished with a rule it found triggered, the rule
\* is never active again, so get_active_alerts never returns it again.
C1_FiredNeverActiveAgain ==
    \A id \in Ids : log[id].finished => ~alerts[id].is_active

\* C2: no evaluation of a triggered rule ends with its notification failed and
\* the rule left active.
C2_FailedNotifyStillDeactivates ==
    \A id \in Ids : ~log[id].lost

\* C3: no failure inside a tracking cycle ends a tracking thread: a thread
\* never dies of an exception.
C3_LoopSurvivesFailures ==
    \A t \in Threads : pc[t] # "crashed"

\* C4: a thread that has seen a stop command starts no further cycle: from the
\* top of its loop it can only leave.
C4_NoCycleAfterStop ==
    [][\A t \in Threads :
          (stopped[t] /\ pc[t] = "top") => pc'[t] \in {"top", "done"}]_vars

\* C5: at most one thread executes the tracking loop at any time.
C5_SingleBackgroundTask ==
    Cardinality({t \in Threads : Live(t)}) <= 1

\* C6: over a rule's lifetime each transport is called at most once for it.
C6_AtMostOncePerTransport ==
    \A id \in Ids : log[id].email <= 1 /\ log[id].chat <= 1

\* runner r takes the step that judges the head of its alerts list, a rule on
\* the quote's symbol
Judges(r) ==
    /\ pc[r] = "eval"
    /\ alist[r] # <<>>
    /\ alerts[Head(alist[r])].symbol = quote[r].symbol
    /\ pc'[r] # pc[r] \/ alist'[r] # alist[r]

\* ... and finds it triggered: it goes on to the notification block
FindsTriggered(r) == pc'[r] \in {"deactivate", "crashed"}

JudgedKind(r) == alerts[Head(alist[r])].alert_type
JudgedThreshold(r) == alerts[Head(alist[r])].threshold

\* C7 as stated: a rule of kind price_above triggers iff price >= threshold, a
\* rule of kind price_below iff price <= threshold.
C7_PriceKindsAsStated ==
    [][\A r \in Runners : Judges(r) =>
          /\ JudgedKind(r) = "price_above" =>
                (FindsTriggered(r) <=> quote[r].price >= JudgedThreshold(r))
          /\ JudgedKind(r) = "price_below" =>
                (FindsTriggered(r) <=> quote[r].price <= JudgedThreshold(r))]_vars

\* C7 amended: the stored kinds are above and below: a rule of kind above
\* triggers iff price >= threshold, a rule of kind below iff price <= threshold.
C7_PriceKinds ==
    [][\A r \in Runners : Judges(r) =>
          /\ JudgedKind(r) = "above" =>
                (FindsTriggered(r) <=> quote[r].price >= JudgedThreshold(r))
          /\ JudgedKind(r) = "below" =>
                (FindsTriggered(r) <=> quote[r].price <= JudgedThreshold(r))]_vars

\* a rule of kind above found triggered by a price equal to its threshold, and a
\* rule of kind below likewise
C7_Witness ==
    /\ pc[Foreground] = "deactivate"
    /\ alerts[Head(alist[Foreground])].alert_type \in {"above", "below"}
    /\ alerts[Head(alist[Foreground])].threshold = quote[Foreground].price

\* C8: a rule of kind change_above triggers iff change_percent >= threshold, a
\* rule of kind change_below iff change_percent <= threshold, whatever the price.
C8_ChangeKinds ==
    [][\A r \in Runners : Judges(r) =>
          /\ JudgedKind(r) = "change_above" =>
                (FindsTriggered(r) <=> quote[r].change_percent >= JudgedThreshold(r))
          /\ JudgedKind(r) = "change_below" =>
                (FindsTriggered(r) <=> quote[r].change_percent <= JudgedThreshold(r))]_vars

\* a change_below rule found triggered by a change on its threshold while the
\* price is above the threshold
C8_Witness ==
    /\ pc[Foreground] = "deactivate"
    /\ alerts[Head(alist[Foreground])].alert_type = "change_below"
    /\ alerts[Head(alist[Foreground])].threshold = quote[Foreground].change_percent
    /\ quote[Foreground].price > alerts[Head(alist[Foreground])].threshold

\* C9: notifying never raises, and a failed email never keeps a due Telegram
\* message from being attempted.
C9_NotifyNeverRaisesNorBlocks ==
    /\ \A r \in Runners : pc[r] # "crashed"
    /\ \A id \in Ids : ~log[id].blocked

\* runner r takes the step in which the fetch of its current symbol gave nothing
FetchFails(r) ==
    /\ pc[r] = "fetch"
    /\ pc'[r] # "check"
    /\ pc'[r] # "fetch" \/ idx'[r] # idx[r]

\* C10: a symbol whose fetch gives nothing is skipped: nothing is stored,
\* nothing is evaluated, notified or deactivated, no exception ends the runner,
\* and the runner goes on to the next symbol of its watchlist if there is one.
C10_FailedFetchSkipsSymbol ==
    [][\A r \in Runners : FetchFails(r) =>
          /\ stocks' = stocks
          /\ alerts' = alerts
          /\ log' = log
          /\ alist'[r] = alist[r]
          /\ pc'[r] \notin {"crashed", "done", "eval", "deactivate"}
          /\ IF idx[r] < Len(wl[r])
             THEN pc'[r] = "fetch" /\ wl'[r] = wl[r] /\ idx'[r] = idx[r] + 1
             ELSE pc'[r] = IF r = Foreground THEN "idle" ELSE "sleep"]_vars

\* the second symbol of the watchlist is being processed after the fetch of the
\* first gave nothing: no sample of the first is stored
C10_Witness ==
    \E t \in Threads :
        /\ pc[t] = "check"
        /\ idx[t] = 2
        /\ wl[t][1] = "ZZZZ"
        /\ quote[t].symbol = "AAPL"
        /\ \A i \in 1..Len(stocks) : stocks[i].symbol # "ZZZZ"
        /\ clock = 1

\* a step that is a direct call of deactivate_alert(id)
DeactivateCalled(id) ==
    /\ last'.seq # last.seq
    /\ last'.op = "deactivate_alert"
    /\ last'.arg = id

C12_ActiveMonotone ==
    [][/\ Len(alerts') >= Len(alerts)
       /\ \A id \in Ids :
             /\ alerts'[id].symbol = alerts[id].symbol
             /\ alerts'[id].alert_type = alerts[id].alert_type
             /\ alerts'[id].threshold = alerts[id].threshold
             /\ alerts'[id].email = alerts[id].email
             /\ alerts'[id].telegram_chat_id = alerts[id].telegram_chat_id
             /\ alerts'[id].is_active => alerts[id].is_active
       /\ \A id \in 1..Len(alerts') : id \notin Ids => alerts'[id].is_active]_vars

\* a rule was created active, an evaluation that found it triggered has
\* deactivated it, deactivate_alert has been called on it by hand as well,
\* and it is inactive
C12_Witness ==
    \E id \in Ids :
        /\ ~alerts[id].is_active
        /\ log[id].finished
        /\ last.op = "deactivate_alert"
        /\ last.arg = id

\* C13: within one evaluation the notification comes before the deactivation.
\* Whenever a rule goes from active to inactive, it is a runner of check_alerts
\* that does it, for the rule it is working on, after it has been through the
\* notification block for that rule in this evaluation, and every transport
\* that was due for the rule has been attempted.
C13_NotifyBeforeDeactivate ==
    [][\A id \in Ids : (alerts[id].is_active /\ ~alerts'[id].is_active) =>
          \E r \in Runners :
              /\ pc[r] = "deactivate"
              /\ Head(alist[r]) = id
              /\ sent[r] \in {"ok", "failed"}
              /\ EmailWanted(alerts[id], email_config) => log[id].email >= 1
              /\ ChatWanted(alerts[id], telegram_config) => log[id].chat >= 1]_vars

\* the loop has deactivated a rule that had both transports due
C13_Witness ==
    \E id \in Ids :
        /\ ~alerts[id].is_active
        /\ log[id].finished
        /\ log[id].email >= 1
        /\ log[id].chat >= 1

\* the price get_stock_data works with, in thousandths of a dollar: the first
\* of currentPrice, regularMarketPrice and the history's last close that is
\* there (a zero price field counts as not there)
HasPrice(info) ==
    \/ Truthy(info.currentPrice.val)
    \/ Truthy(info.regularMarketPrice.val)
    \/ info.histClose # Absent
ProviderPrice(info) ==
    IF Truthy(info.currentPrice.val) THEN info.currentPrice.val[1]
    ELSE IF Truthy(info.regularMarketPrice.val) THEN info.regularMarketPrice.val[1]
    ELSE info.histClose[1]

\* C14: when a price is resolved and the provider gives a previous close,
\* get_stock_data returns a quote; its change_percent is 0 when the previous
\* close is 0, whatever the price, and otherwise (price - previous_close) /
\* previous_close * 100 to the nearest hundredth of a percent.
C14_ChangePercent ==
    last.op = "get_stock_data" =>
        LET info == last.arg[2]
            prev == info.previousClose
        IN  (HasPrice(info) /\ prev.present /\ prev.val # Absent) =>
                /\ last.ret # <<>>
                /\ LET cp == last.ret[1].change_percent
                       p == prev.val[1]
                       change == ProviderPrice(info) - p
                   IN  IF p = 0 THEN cp = 0
                       ELSE /\ 2 * (cp * p - 10000 * change) <= p
                            /\ 2 * (10000 * change - cp * p) <= p

\* a quote has been returned for a previous close of zero and a non-zero price
C14_Witness ==
    /\ last.op = "get_stock_data"
    /\ last.arg[2].previousClose = Key(<<0>>)
    /\ last.ret # <<>>
    /\ last.ret[1].price > 0

\* C15: when a price is resolved and the previous close is unavailable (its
\* key missing, or present with no value), get_stock_data returns a quote with
\* change 0 and change_percent 0.
C15_MissingPreviousClose ==
    last.op = "get_stock_data" =>
        LET info == last.arg[2]
            prev == info.previousClose
        IN  (HasPrice(info) /\ (~prev.present \/ prev.val = Absent)) =>
                /\ last.ret # <<>>
                /\ last.ret[1].change = 0
                /\ last.ret[1].change_percent = 0

\* the positions of a runner inside the body of its for loop
InBody(r) == pc[r] \in {"fetch", "check", "eval", "deactivate"}

\* what a cycle does with the list it has read: it fetches the symbol at its
\* position, moves on by one symbol at a time without changing the list, and
\* ends after the last symbol
WalksItsList(t) ==
    /\ (pc[t] = "fetch" /\ pc'[t] = "check") => quote'[t].symbol = wl[t][idx[t]]
    /\ (InBody(t) /\ pc'[t] \in {"check", "eval", "deactivate"}) =>
           (wl'[t] = wl[t] /\ idx'[t] = idx[t])
    /\ (InBody(t) /\ pc[t] # "fetch" /\ pc'[t] = "fetch") =>
           (wl'[t] = wl[t] /\ idx'[t] = idx[t] + 1)
    /\ (pc[t] = "fetch" /\ pc'[t] = "fetch") =>
           (wl'[t] = wl[t] /\ idx'[t] \in {idx[t], idx[t] + 1})
    /\ (InBody(t) /\ pc'[t] = "sleep") => idx[t] = Len(wl[t])

QueryCalled ==
    /\ last'.seq # last.seq
    /\ last'.op = "get_historical_data"

\* how often a row occurs in a sequence of rows
Occurrences(rows, row) == Cardinality({i \in 1..Len(rows) : rows[i] = row})

\* rows is exactly the stored samples of the symbol at or after the cutoff, in
\* non-decreasing timestamp order
IsAnswer(rows, tbl, symbol, cutoff) ==
    /\ \A i \in 1..Len(rows) :
          /\ rows[i].symbol = symbol
          /\ rows[i].timestamp >= cutoff
          /\ Occurrences(rows, rows[i]) = Occurrences(tbl, rows[i])
    /\ \A i \in 1..Len(tbl) :
          (tbl[i].symbol = symbol /\ tbl[i].timestamp >= cutoff) =>
              Occurrences(rows, tbl[i]) = Occurrences(tbl, tbl[i])
    /\ \A i \in 1..Len(rows) - 1 : rows[i].timestamp <= rows[i + 1].timestamp

\* C17 as stated: every query returns exactly the stored samples of its symbol
\* at or after the cutoff, ordered by timestamp, and changes no state; a query
\* repeated with the same inputs and nothing appended in between returns the
\* same sequence.
C17_QueryExactAsStated ==
    [][QueryCalled =>
          /\ UNCHANGED <<watchlist, alerts, stocks>>
          /\ IsAnswer(last'.ret, stocks, "AAPL", last'.arg[2])
          /\ last'.again => last'.ret = last.ret]_vars

\* C17: every query changes no state and returns either exactly the stored
\* samples of its symbol at or after the cutoff, ordered by timestamp, or
\* (when the query fails) no rows; a query repeated with the same inputs and
\* nothing appended in between returns the same sequence unless one of the two
\* failed.
C17_QueryExact ==
    [][QueryCalled =>
          /\ UNCHANGED <<watchlist, alerts, stocks>>
          /\ \/ last'.ret = <<>>
             \/ IsAnswer(last'.ret, stocks, "AAPL", last'.arg[2])
          /\ last'.again => (last'.ret = last.ret \/ last'.ret = <<>> \/ last.ret = <<>>)]_vars

\* a query has been repeated and has returned two samples that were stored
\* in the other order
C17_Witness ==
    /\ last.op = "get_historical_data"
    /\ last.again
    /\ Len(last.ret) = Len(stocks)
    /\ Len(stocks) > 1
    /\ last.ret # stocks

\* a step that is a direct call of create_alert
CreateCalled ==
    /\ last'.seq # last.seq
    /\ last'.op = "create_alert"

\* C18: a creation that fails returns False and leaves the registry as it was;
\* create_alert returns True only when it has stored one new rule, active,
\* with the symbol in upper case and the kind, threshold and destinations it
\* was given.
C18_CreateReportsFailure ==
    [][CreateCalled =>
          IF last'.ret
          THEN /\ Len(alerts') = Len(alerts) + 1
               /\ SubSeq(alerts', 1, Len(alerts)) = alerts
               /\ alerts'[Len(alerts')] =
                      [symbol |-> "AAPL", alert_type |-> last'.arg[2],
                       threshold |-> last'.arg[3], email |-> last'.arg[4],
                       telegram_chat_id |-> last'.arg[5], is_active |-> TRUE]
          ELSE alerts' = alerts]_vars

\* a creation has failed and been reported after another had succeeded
C18_Witness ==
    /\ last.op = "create_alert"
    /\ ~last.ret
    /\ last.arg[1] = "aapl"
    /\ Len(alerts) > 0

\* C19: once an evaluation has found a rule triggered and is over for it, the
\* email transport has been attempted exactly if the rule has an email
\* destination and an email configuration was supplied, the chat transport
\* exactly if the rule has a chat id and a chat configuration was supplied,
\* and the rule is inactive.
C19_AttemptsThenInactive ==
    \A id \in Ids : log[id].finished =>
        /\ log[id].email >= 1 <=> EmailWanted(alerts[id], email_config)
        /\ log[id].chat >= 1 <=> ChatWanted(alerts[id], telegram_config)
        /\ ~alerts[id].is_active

\* C20: when every call a thread makes returns, a cleared flag that is not set
\* again by start_tracking leads to every tracking thread having exited; a
\* thread that comes to its while test with the flag cleared starts no further
\* cycle, so it finishes at most the cycle it is in and one sleep.
C20_StopEndsThreads ==
    /\ (~tracking_active) ~> (tracking_active \/ \A t \in Threads : ~Live(t))
    /\ [][\A t \in Threads : (pc[t] = "top" /\ ~tracking_active) =>
              pc'[t] \in {"top", "done"}]_vars

\* every thread that was started has exited after stop_tracking, the last of
\* them after finishing a cycle that had stored a sample
C20_Witness ==
    /\ ~tracking_active
    /\ \A t \in Threads : pc[t] = "done"
    /\ stocks # <<>>

\* a step a runner takes inside check_alerts
InCheckAlerts(r) ==
    /\ pc[r] \in {"check", "eval", "deactivate"}
    /\ pc'[r] # pc[r] \/ alist'[r] # alist[r]

\* the condition of a rule holds for a quote
ConditionHolds(a, q) ==
    \/ a.alert_type = "above" /\ q.price >= a.threshold
    \/ a.alert_type = "below" /\ q.price <= a.threshold
    \/ a.alert_type = "change_above" /\ q.change_percent >= a.threshold
    \/ a.alert_type = "change_below" /\ q.change_percent <= a.threshold

\* C21: a step of check_alerts for a quote leaves the watchlist and the stored
\* samples as they are, adds and removes no rule, and whenever it changes a
\* rule or attempts a notification for it, the rule is active, has the symbol
\* of the quote and its condition holds for the quote; the only change to a
\* rule is that its active flag becomes false.
C21_CheckAlertsFrame ==
    [][\A r \in Runners : InCheckAlerts(r) =>
          /\ watchlist' = watchlist
          /\ stocks' = stocks
          /\ Len(alerts') = Len(alerts)
          /\ \A id \in Ids :
                (alerts'[id] # alerts[id] \/ log'[id].email # log[id].email
                                         \/ log'[id].chat # log[id].chat) =>
                    /\ alerts[id].is_active
                    /\ alerts[id].symbol = quote[r].symbol
                    /\ ConditionHolds(alerts[id], quote[r])
                    /\ \/ alerts'[id] = alerts[id]
                       \/ alerts'[id] = [alerts[id] EXCEPT !.is_active = FALSE]]_vars

\* check_alerts has read the active rules and stands at a rule of the other
\* symbol whose condition the quote meets and whose email is due; the quote
\* has been stored
C21_Witness ==
    /\ pc[Foreground] = "eval"
    /\ alist[Foreground] # <<>>
    /\ stocks # <<>>
    /\ LET a == alerts[Head(alist[Foreground])]
       IN  /\ a.symbol # quote[Foreground].symbol
           /\ ConditionHolds(a, quote[Foreground])
           /\ a.is_active
           /\ EmailWanted(a, email_config)

\* C22: create_alert stores whatever kind it is given, and a stored rule whose
\* kind check_alerts does not recognise is never found triggered: while nobody
\* deactivates it by hand it stays active, no notification is attempted for it
\* and no evaluation ends for it as triggered.
C22_UnknownKindNeverTriggers ==
    /\ [][CreateCalled /\ last'.ret =>
              /\ Len(alerts') = Len(alerts) + 1
              /\ alerts'[Len(alerts')].alert_type = last'.arg[2]]_vars
    /\ [](\A id \in Ids : alerts[id].alert_type \notin KnownKinds =>
              /\ alerts[id].is_active
              /\ log[id].email = 0
              /\ log[id].chat = 0
              /\ ~log[id].finished)

\* a rule of kind price_above has been created by create_alert, and
\* check_alerts stands at it with a quote of its symbol at its threshold and
\* an email that would be due
C22_Witness ==
    /\ pc[Foreground] = "eval"
    /\ alist[Foreground] # <<>>
    /\ last.op = "create_alert"
    /\ last.arg[2] = "price_above"
    /\ LET a == alerts[Head(alist[Foreground])]
       IN  /\ a.alert_type = "price_above"
           /\ a.symbol = quote[Foreground].symbol
           /\ a.threshold = quote[Foreground].price
           /\ a.is_active
           /\ EmailWanted(a, email_config)
====
